---- MODULE Spec2Model ----
(***************************************************************************)
(* Refresh-token lifecycle of the FastAPI boilerplate: the token ledger    *)
(* (RefreshTokenRepository over the refresh_tokens table), the Redis       *)
(* token cache (RedisService) and the handlers of AuthService that issue,  *)
(* rotate and revoke refresh tokens.  Every await of a handler is one      *)
(* step; handlers of different requests interleave at their awaits.  A     *)
(* request that is abandoned at an await (client gone, worker lost) is a   *)
(* handler that takes no further step: Spec has no fairness, so every      *)
(* state in which a handler is suspended is also a state it may be left in. *)
(***************************************************************************)
EXTENDS Integers, FiniteSets, Sequences, TLC

\* ---------------------------------------------------------------- bounds
\* MaxRecords: rows ever inserted; MaxTicks: clock advances; MaxOps: requests
\* accepted plus environment events (sweep, cache flush, account deletion,
\* database outage).
MaxRecords == 4
MaxTicks == 2
MaxOps == 2
\* MaxMinuteTicks: advances of the minute clock; MaxJwts: access tokens minted.
MaxMinuteTicks == 3
MaxJwts == 2
\* MaxWrong: incorrect entries followed for one stored code.
MaxWrong == 3
\* MaxHits: the largest value the rate limiter's counter is followed to.
MaxHits == 7

\* ------------------------------------------------------------- constants
REFRESH_TOKEN_EXPIRE_DAYS == 30

\* The clock advances in steps of one refresh lifetime, so that a record is
\* seen before, exactly at and after its expiry instant.
TickDays == REFRESH_TOKEN_EXPIRE_DAYS

Procs == {"p1", "p2"}
ProcBefore(q, p) == q = "p1" /\ p = "p2"
Users == {"u1", "u2"}

\* Python's None, for ids, instants and secrets (all of which are >= 0).
NONE == -1

\* Secret 0 is a string no issuance ever returned; secret k > 0 is the k-th
\* value secrets.token_urlsafe produced.
Secrets == 0..MaxRecords

VARIABLES
    ledger,     \* refresh_tokens table: id -> row, for the rows that exist
    cache,      \* Redis keys refresh_token:{hash} -> cached metadata
    is_active,  \* users.is_active
    now,        \* datetime.now(UTC), in days
    nextId,     \* the next fresh uuid4 / fresh secret
    pc,         \* the await each request handler is suspended at
    loc,        \* the local variables of each request handler
    result,     \* what the handler that finished last returned or raised
                \* (until the next request is accepted)
    returned,   \* history: <<presented secret, new secret>> of every rotate that
                \* returned a pair
    ops,        \* number of requests and environment events so far
    kv,         \* Redis keys of the verification codes: key -> value and expiry
    minute,     \* datetime.now(UTC), in minutes, for codes and access tokens
    jwts,       \* the signed access tokens (JWT payloads) issued so far
    auth,       \* what the last get_current_user returned or raised
    wrong,      \* history: incorrect entries made against the stored code
    beat_deleted, \* deleted_count of the last run of the scheduled job
    device_rows, \* the columns device_id and parent_token_id of the rows that
                \* the device flows create, in order of creation
    rl_pc,      \* where each call of check_rate_limit is suspended
    rl_first,   \* history: the instant of the first increment of the counter key
    rl_answer   \* what the last call of the rate limiter answered

\* What the request handlers of the ledger leave alone: the account flows
\* and the scheduled job.
rate_vars == <<rl_pc, rl_first, rl_answer>>
side == <<kv, minute, jwts, auth, wrong, beat_deleted, device_rows, rate_vars>>

vars == <<ledger, cache, is_active, now, nextId, pc, loc, result, returned, ops,
          kv, minute, jwts, auth, wrong, beat_deleted, device_rows,
          rl_pc, rl_first, rl_answer>>

\* ---------------------------------------------------- credential primitives

\* SecurityService.hash_token: SHA-256 hex digest, deterministic and injective
\* on the secrets in play.
hash_token(s) == <<"sha256", s>>

\* --------------------------------------------------------------- ledger

\* RefreshTokenRepository.get_by_token_hash: the id of the row with that
\* hash, or NONE.  token_hash is a unique column.
get_by_token_hash(L, h) ==
    IF \E i \in DOMAIN L : L[i].token_hash = h
    THEN CHOOSE i \in DOMAIN L : L[i].token_hash = h
    ELSE NONE

\* RefreshTokenRepository.is_token_valid
is_token_valid(L, h, t) ==
    LET i == get_by_token_hash(L, h) IN
    IF i = NONE THEN FALSE
    ELSE IF L[i].is_revoked THEN FALSE
    ELSE ~(L[i].expires_at < t)

\* What the ledger holds for a hash at instant t, read off the row's columns:
\* no row, a revoked row, a row whose expires_at has passed, or a live row.
\* (History kept for the properties; the handlers do not branch on it.)
ledger_status(L, h, t) ==
    LET i == get_by_token_hash(L, h) IN
    IF i = NONE THEN "absent"
    ELSE IF L[i].is_revoked = TRUE THEN "revoked"
    ELSE IF t > L[i].expires_at THEN "expired"
    ELSE "live"

\* The row RefreshTokenRepository.create_token inserts.
NewRecord(u, h, t, parent) ==
    [user_id |-> u, token_hash |-> h,
     expires_at |-> t + REFRESH_TOKEN_EXPIRE_DAYS,
     is_revoked |-> FALSE, revoked_at |-> NONE,
     replaced_by_id |-> NONE, parent_token_id |-> parent]

\* revoke_token without the forward link (replaced_by_id left out of the
\* UPDATE's values).
revoke_token_nolink(L, id, replaced_by, t) ==
    [i \in DOMAIN L |->
        IF i = id
        THEN [L[i] EXCEPT !.is_revoked = TRUE, !.revoked_at = t]
        ELSE L[i]]

\* RefreshTokenRepository.revoke_token: UPDATE ... WHERE id = token_id.
revoke_token(L, id, replaced_by, t) ==
    [i \in DOMAIN L |->
        IF i = id
        THEN [L[i] EXCEPT !.is_revoked = TRUE, !.revoked_at = t,
                          !.replaced_by_id = replaced_by]
        ELSE L[i]]

\* A bulk revoke that also ends the rows' lifetime at the instant of revocation.
revoke_ids_expiring(L, ids, t) ==
    [i \in DOMAIN L |->
        IF i \in ids
        THEN [L[i] EXCEPT !.is_revoked = TRUE, !.revoked_at = t,
                          !.expires_at = t]
        ELSE L[i]]

\* The bulk UPDATE of revoke_token_chain: WHERE id IN chain_tokens.
revoke_ids(L, ids, t) ==
    [i \in DOMAIN L |->
        IF i \in ids
        THEN [L[i] EXCEPT !.is_revoked = TRUE, !.revoked_at = t]
        ELSE L[i]]

\* revoke_all_user_tokens without the "id != except_token_id" condition.
revoke_all_targets_noexcept(L, u, except_id) ==
    {i \in DOMAIN L : L[i].user_id = u /\ L[i].is_revoked = FALSE}

\* The rows the UPDATE of revoke_all_user_tokens matches.
revoke_all_targets(L, u, except_id) ==
    {i \in DOMAIN L : /\ L[i].user_id = u
                      /\ L[i].is_revoked = FALSE
                      /\ (except_id # NONE => i # except_id)}

\* A DELETE that also matches the rows expiring at this very instant.
expired_ids_boundary(L, t) == {i \in DOMAIN L : L[i].expires_at <= t}

\* A DELETE that keeps the first record of every chain.
expired_ids_keep_roots(L, t) ==
    {i \in DOMAIN L : L[i].expires_at < t /\ L[i].parent_token_id # NONE}

\* The rows the DELETE of cleanup_expired_tokens matches.
expired_ids(L, t) == {i \in DOMAIN L : L[i].expires_at < t}

\* The rowcount cleanup_expired_tokens returns.
cleanup_rowcount(L, t) == Cardinality(expired_ids(L, t))

\* ---------------------------------------------------------------- cache

\* RedisService.get_cached_token: the key is present (truthy value).
get_cached_token(C, h) == h \in DOMAIN C

\* RedisService.cache_refresh_token: SET with ex = expires_at - now, skipped
\* when that is not positive.  Redis drops the key at expires_at.
cache_refresh_token(C, h, u, expires_at, t) ==
    IF expires_at - t > 0
    THEN [k \in DOMAIN C \cup {h} |->
            IF k = h THEN [user_id |-> u, expires_at |-> expires_at] ELSE C[k]]
    ELSE C

\* RedisService.invalidate_token_cache: DEL of the key.
invalidate_token_cache(C, h) == [k \in DOMAIN C \ {h} |-> C[k]]

\* ------------------------------------------------------ handler plumbing

IdleLoc ==
    [op |-> "none", user |-> "none", secret |-> NONE, cached |-> FALSE,
     exchanged |-> FALSE, seen |-> "none", db_token |-> NONE, parent |-> NONE, chain |-> {},
     new_secret |-> NONE, expires_at |-> NONE, new_db_token |-> NONE,
     except_id |-> NONE, count |-> NONE]

NoResult == [op |-> "none", outcome |-> "none", secret |-> NONE,
             exchanged |-> FALSE, new_secret |-> NONE, count |-> NONE]

\* The handler of worker p returns or raises: the request is over.
Finish(p, outcome, new_secret, count) ==
    /\ pc' = [pc EXCEPT ![p] = "idle"]
    /\ result' = [op |-> loc[p].op, outcome |-> outcome,
                  secret |-> loc[p].secret, exchanged |-> loc[p].exchanged,
                  new_secret |-> new_secret, count |-> count]
    /\ loc' = [loc EXCEPT ![p] = IdleLoc]

\* A request arrives and is taken by the first idle worker p.
Begin(p) ==
    /\ pc[p] = "idle"
    /\ \A q \in Procs : pc[q] = "idle" => ~ProcBefore(q, p)
    /\ ops < MaxOps
    /\ ops' = ops + 1
    /\ UNCHANGED side

\* Worker p moves to its next await; a worker that was idle has just accepted
\* a request, and the previous response is no longer on display.
Goto(p, label, newloc) ==
    /\ pc' = [pc EXCEPT ![p] = label]
    /\ loc' = [loc EXCEPT ![p] = newloc]
    /\ result' = IF pc[p] = "idle" THEN NoResult ELSE result

\* The payload of a token without a `scope` key.
NoScope == "none"

\* No get_current_user has run yet.
NoAuth == [token |-> [sub |-> "none", exp |-> 0, scope |-> NoScope],
           outcome |-> "none"]

\* The service has been running: user u1 has logged in once (secret 1, row 1)
\* and has refreshed once (secret 2, row 2), both at instant 0; this is the
\* state those two requests leave behind.
Init ==
    /\ ledger = (1 :> [NewRecord("u1", hash_token(1), 0, NONE) EXCEPT
                            !.is_revoked = TRUE, !.revoked_at = 0,
                            !.replaced_by_id = 2])
                @@ (2 :> NewRecord("u1", hash_token(2), 0, 1))
    /\ cache = invalidate_token_cache(
                  cache_refresh_token(
                    cache_refresh_token(<<>>, hash_token(1), "u1",
                                        REFRESH_TOKEN_EXPIRE_DAYS, 0),
                    hash_token(2), "u1", REFRESH_TOKEN_EXPIRE_DAYS, 0),
                  hash_token(1))
    /\ is_active = [u \in Users |-> TRUE]
    /\ now = 0
    /\ nextId = 3
    /\ pc = [p \in Procs |-> "idle"]
    /\ loc = [p \in Procs |-> IdleLoc]
    /\ result = [op |-> "rotate", outcome |-> "tokens", secret |-> 1,
                 exchanged |-> FALSE, new_secret |-> 2, count |-> NONE]
    /\ returned = {<<1, 2>>}
    /\ ops = 0
    /\ kv = <<>>
    /\ minute = 0
    /\ jwts = {}
    /\ auth = NoAuth
    /\ wrong = [u \in Users |-> 0]
    /\ beat_deleted = NONE
    /\ device_rows = <<>>
    /\ rl_pc = [p \in Procs |-> "idle"]
    /\ rl_first = NONE
    /\ rl_answer = "none"


\* ------------------------------------------------- _create_token_pair
\* create_token under a single-session policy: the insert also revokes the
\* user's other rows.
create_token_single_session(p) ==
    /\ pc[p] = "create_token"
    /\ \E s \in 1..nextId :
        LET h == hash_token(s) IN
        IF get_by_token_hash(ledger, h) # NONE \/ s < nextId
        THEN /\ get_by_token_hash(ledger, h) # NONE
             /\ Finish(p, "storage_error", NONE, NONE)
             /\ UNCHANGED <<ledger, nextId>>
        ELSE /\ nextId <= MaxRecords
             /\ ledger' = [i \in DOMAIN ledger |->
                              IF ledger[i].user_id = loc[p].user
                              THEN [ledger[i] EXCEPT !.is_revoked = TRUE]
                              ELSE ledger[i]]
                          @@ (nextId :> NewRecord(loc[p].user, h, now, NONE))
             /\ nextId' = nextId + 1
             /\ Goto(p, "cache_refresh_token",
                     [loc[p] EXCEPT !.new_secret = s,
                                    !.expires_at = now + REFRESH_TOKEN_EXPIRE_DAYS])
    /\ UNCHANGED <<cache, is_active, now, returned, ops, side>>

\* create_token on a table without the unique index on token_hash: the insert
\* of a hash that is already stored goes through.
create_token_nounique(p) ==
    /\ pc[p] = "create_token"
    /\ nextId <= MaxRecords
    /\ \E s \in 1..nextId :
        /\ s < nextId => get_by_token_hash(ledger, hash_token(s)) # NONE
        /\ ledger' = ledger @@
                (nextId :> NewRecord(loc[p].user, hash_token(s), now, NONE))
        /\ nextId' = nextId + 1
        /\ Goto(p, "cache_refresh_token",
                [loc[p] EXCEPT !.new_secret = s,
                               !.expires_at = now + REFRESH_TOKEN_EXPIRE_DAYS])
    /\ UNCHANGED <<cache, is_active, now, returned, ops, side>>

\* AuthService._create_token_pair, first await: a secret is generated and
\* hashed, and create_token inserts the row.  The generator may return any
\* string: a fresh one, or (with negligible probability) one generated
\* before, whose insert the unique index on token_hash rejects.
create_token(p) ==
    /\ pc[p] = "create_token"
    /\ \E s \in 1..nextId :
        LET h == hash_token(s) IN
        IF get_by_token_hash(ledger, h) # NONE \/ s < nextId
        THEN \* IntegrityError / a secret seen before: the request fails
             /\ get_by_token_hash(ledger, h) # NONE
             /\ Finish(p, "storage_error", NONE, NONE)
             /\ UNCHANGED <<ledger, nextId>>
        ELSE /\ nextId <= MaxRecords
             /\ ledger' = ledger @@ (nextId :> NewRecord(loc[p].user, h, now, NONE))
             /\ nextId' = nextId + 1
             /\ Goto(p, "cache_refresh_token",
                     [loc[p] EXCEPT !.new_secret = s,
                                    !.expires_at = now + REFRESH_TOKEN_EXPIRE_DAYS])
    /\ UNCHANGED <<cache, is_active, now, returned, ops, side>>

\* AuthService._create_token_pair, second await: the write-through to the
\* cache, then the pair is returned (to the login caller) or handed back to
\* refresh_access_token.
cache_refresh_token_step(p) ==
    /\ pc[p] = "cache_refresh_token"
    /\ cache' = cache_refresh_token(cache, hash_token(loc[p].new_secret),
                                     loc[p].user, loc[p].expires_at, now)
    /\ IF loc[p].op = "login"
       THEN Finish(p, "tokens", loc[p].new_secret, NONE)
       ELSE Goto(p, "get_new_token", loc[p])
    /\ UNCHANGED <<ledger, is_active, now, nextId, returned, ops, side>>

\* ------------------------------------------------------------- login
\* AuthService.authenticate_email (and the social logins): the user is
\* looked up and must be active; then _create_token_pair runs.
authenticate(p, u) ==
    /\ Begin(p)
    /\ nextId <= MaxRecords
    /\ IF is_active[u]
       THEN Goto(p, "create_token", [IdleLoc EXCEPT !.op = "login", !.user = u])
       ELSE /\ UNCHANGED <<pc, loc>>
            /\ result' = [NoResult EXCEPT !.op = "login", !.outcome = "inactive"]
    /\ UNCHANGED <<ledger, cache, is_active, now, nextId, returned>>


\* ------------------------------------------------ refresh_access_token
\* The validation phase (lines 122-155) is written as functions of the
\* cache lookup's answer, the handler's locals, the ledger and the clock,
\* each giving the next await, the outcome (if the handler raises there),
\* the locals and the ledger after the step.

StepResult(label, outcome, l, L) ==
    [pc |-> label, outcome |-> outcome, loc |-> l, ledger |-> L]

\* The validation with a cache hit accepted on its own (the ledger is asked
\* only on a miss).
validate_step_hit(cached, l, L, t) ==
    LET l2 == [l EXCEPT !.seen = ledger_status(L, hash_token(l.secret), t)] IN
    IF cached \/ is_token_valid(L, hash_token(l.secret), t)
    THEN StepResult("get_db_token", "none", l2, L)
    ELSE StepResult("reuse_check", "none", l2, L)

\* The validation with a cache miss taken for "token invalid" (no fall
\* through to the ledger).
validate_step_miss(cached, l, L, t) ==
    LET l2 == [l EXCEPT !.seen = ledger_status(L, hash_token(l.secret), t)] IN
    IF ~cached
    THEN StepResult("idle", "invalid", l2, L)
    ELSE IF is_token_valid(L, hash_token(l.secret), t)
         THEN StepResult("get_db_token", "none", l2, L)
         ELSE StepResult("reuse_check", "none", l2, L)

\* Lines 124-127 (cache hit) and 141-144 (cache miss): both branches ask the
\* ledger.
validate_step(cached, l, L, t) ==
    LET l2 == [l EXCEPT !.seen = ledger_status(L, hash_token(l.secret), t)] IN
    IF is_token_valid(L, hash_token(l.secret), t)
    THEN StepResult("get_db_token", "none", l2, L)
    ELSE StepResult("reuse_check", "none", l2, L)

\* The fetch taking any row it finds for a reuse (`if db_token:` without the
\* is_revoked test).
reuse_check_step_any(cached, l, L, t) ==
    LET i == get_by_token_hash(L, hash_token(l.secret)) IN
    IF i # NONE
    THEN IF L[i].parent_token_id # NONE
         THEN StepResult("chain_walk", "none",
                         [l EXCEPT !.db_token = i, !.parent = L[i].parent_token_id], L)
         ELSE IF cached
              THEN StepResult("reuse_invalidate", "none",
                              [l EXCEPT !.db_token = i, !.count = 0], L)
              ELSE StepResult("idle", "reuse", [l EXCEPT !.db_token = i, !.count = 0], L)
    ELSE StepResult("idle", "invalid", l, L)

\* revoke_token_chain with the starting row put on the list it collects
\* (chain_tokens = [token.id] instead of []).
reuse_check_step_self(cached, l, L, t) ==
    LET i == get_by_token_hash(L, hash_token(l.secret)) IN
    IF i # NONE /\ L[i].is_revoked
    THEN IF L[i].parent_token_id # NONE
         THEN StepResult("chain_walk", "none",
                         [l EXCEPT !.db_token = i, !.chain = {i},
                                   !.parent = L[i].parent_token_id], L)
         ELSE IF cached
              THEN StepResult("reuse_invalidate", "none",
                              [l EXCEPT !.db_token = i, !.count = 0], L)
              ELSE StepResult("idle", "reuse", [l EXCEPT !.db_token = i, !.count = 0], L)
    ELSE StepResult("idle", "invalid", l, L)

\* Lines 129-130 / 145-146: the row is fetched; a revoked row is a reuse.
\* revoke_token_chain then starts from that row (its get() is answered by
\* the session's identity map with the object just loaded) and finds the
\* chain empty, returning 0, when the row has no parent.
reuse_check_step(cached, l, L, t) ==
    LET i == get_by_token_hash(L, hash_token(l.secret)) IN
    IF i # NONE /\ L[i].is_revoked
    THEN IF L[i].parent_token_id # NONE
         THEN StepResult("chain_walk", "none",
                         [l EXCEPT !.db_token = i, !.parent = L[i].parent_token_id], L)
         ELSE IF cached
              THEN StepResult("reuse_invalidate", "none",
                              [l EXCEPT !.db_token = i, !.count = 0], L)
              ELSE StepResult("idle", "reuse", [l EXCEPT !.db_token = i, !.count = 0], L)
    ELSE StepResult("idle", "invalid", l, L)

\* revoke_token_chain lines 91-97: one parent lookup of the backward walk.
chain_walk_step(cached, l, L, t) ==
    IF l.parent \in DOMAIN L
    THEN LET l2 == [l EXCEPT !.chain = l.chain \cup {l.parent},
                             !.parent = L[l.parent].parent_token_id]
         IN IF l2.parent # NONE
            THEN StepResult("chain_walk", "none", l2, L)
            ELSE StepResult("chain_update", "none", l2, L)
    ELSE IF l.chain # {}
         THEN StepResult("chain_update", "none", l, L)
         ELSE IF cached
              THEN StepResult("reuse_invalidate", "none", [l EXCEPT !.count = 0], L)
              ELSE StepResult("idle", "reuse", [l EXCEPT !.count = 0], L)

\* revoke_token_chain lines 99-107: the collected ancestors are revoked and
\* the UPDATE's rowcount is returned.
chain_update_step(cached, l, L, t) ==
    LET l2 == [l EXCEPT !.count = Cardinality(l.chain \cap DOMAIN L)] IN
    IF cached
    THEN StepResult("reuse_invalidate", "none", l2, revoke_ids(L, l.chain, t))
    ELSE StepResult("idle", "reuse", l2, revoke_ids(L, l.chain, t))

\* Line 133 (cache-hit branch only) and the raise of line 138.
reuse_invalidate_step(cached, l, L, t) ==
    StepResult("idle", "reuse", l, L)

ValidationLabels ==
    {"is_token_valid", "reuse_check", "chain_walk", "chain_update", "reuse_invalidate"}

validation_step(label, cached, l, L, t) ==
    CASE label = "is_token_valid" -> validate_step(cached, l, L, t)
      [] label = "reuse_check" -> reuse_check_step(cached, l, L, t)
      [] label = "chain_walk" -> chain_walk_step(cached, l, L, t)
      [] label = "chain_update" -> chain_update_step(cached, l, L, t)
      [] label = "reuse_invalidate" -> reuse_invalidate_step(cached, l, L, t)

\* A validation step of worker p's refresh_access_token.
Validation(p, label) ==
    /\ pc[p] = label
    /\ LET r == validation_step(label, loc[p].cached, loc[p], ledger, now) IN
        /\ ledger' = r.ledger
        /\ cache' = IF label = "reuse_invalidate"
                    THEN invalidate_token_cache(cache, hash_token(loc[p].secret))
                    ELSE cache
        /\ IF r.pc = "idle"
           THEN Finish(p, r.outcome, NONE, r.loc.count)
           ELSE Goto(p, r.pc, r.loc)
    /\ UNCHANGED <<is_active, now, nextId, returned, ops, side>>

\* Lines 119-123: the secret is hashed and the cache is asked.
refresh_access_token(p, s) ==
    /\ Begin(p)
    /\ s \in 0..(nextId - 1)
    /\ Goto(p, "is_token_valid",
            [IdleLoc EXCEPT !.op = "rotate", !.secret = s,
                            !.cached = get_cached_token(cache, hash_token(s)),
                            !.exchanged = (s \in {r[1] : r \in returned})])
    /\ UNCHANGED <<ledger, cache, is_active, now, nextId, returned>>

rotate_is_token_valid(p) == Validation(p, "is_token_valid")
rotate_reuse_check(p) == Validation(p, "reuse_check")
rotate_chain_walk(p) == Validation(p, "chain_walk")
rotate_chain_update(p) == Validation(p, "chain_update")
rotate_reuse_invalidate(p) == Validation(p, "reuse_invalidate")

\* The user of the new pair taken from the request (the first user of the
\* table) instead of from the presented row.
rotate_get_db_token_any_user(p) ==
    /\ pc[p] = "get_db_token"
    /\ LET i == get_by_token_hash(ledger, hash_token(loc[p].secret)) IN
        IF i = NONE
        THEN Finish(p, "invalid", NONE, NONE)
        ELSE Goto(p, "get_user",
                  [loc[p] EXCEPT !.db_token = i,
                                 !.user = CHOOSE u \in Users :
                                            u # ledger[i].user_id])
    /\ UNCHANGED <<ledger, cache, is_active, now, nextId, returned, ops, side>>

\* Lines 157-160: the row is loaded for the rest of the handler.
rotate_get_db_token(p) ==
    /\ pc[p] = "get_db_token"
    /\ LET i == get_by_token_hash(ledger, hash_token(loc[p].secret)) IN
        IF i = NONE
        THEN Finish(p, "invalid", NONE, NONE)
        ELSE Goto(p, "get_user",
                  [loc[p] EXCEPT !.db_token = i, !.user = ledger[i].user_id])
    /\ UNCHANGED <<ledger, cache, is_active, now, nextId, returned, ops, side>>

\* The handler with the two writes in the other order: the presented row is
\* revoked as soon as the user is loaded, before the new row is created.
rotate_get_user_revoke_first(p) ==
    /\ pc[p] = "get_user"
    /\ IF is_active[loc[p].user]
       THEN /\ ledger' = revoke_token(ledger, loc[p].db_token, NONE, now)
            /\ Goto(p, "create_token", loc[p])
       ELSE /\ UNCHANGED ledger
            /\ Finish(p, "inactive", NONE, NONE)
    /\ UNCHANGED <<cache, is_active, now, nextId, returned, ops, side>>

\* The user check testing only that the user exists (`if not user:`).
rotate_get_user_nocheck(p) ==
    /\ pc[p] = "get_user"
    /\ Goto(p, "create_token", loc[p])
    /\ UNCHANGED <<ledger, cache, is_active, now, nextId, returned, ops, side>>

\* Lines 162-165: the owning user must exist and be active.
rotate_get_user(p) ==
    /\ pc[p] = "get_user"
    /\ IF is_active[loc[p].user]
       THEN Goto(p, "create_token", loc[p])
       ELSE Finish(p, "inactive", NONE, NONE)
    /\ UNCHANGED <<ledger, cache, is_active, now, nextId, returned, ops, side>>

\* Lines 176-178: the row just created is looked up by its hash.
rotate_get_new_token(p) ==
    /\ pc[p] = "get_new_token"
    /\ LET n == get_by_token_hash(ledger, hash_token(loc[p].new_secret)) IN
        Goto(p, IF n # NONE THEN "link_parent" ELSE "revoke_old",
             [loc[p] EXCEPT !.new_db_token = n])
    /\ UNCHANGED <<ledger, cache, is_active, now, nextId, returned, ops, side>>

\* BaseRepository.update writing back the whole object as it was loaded (a
\* full-row UPDATE) instead of the one changed column.
rotate_link_parent_fullrow(p) ==
    /\ pc[p] = "link_parent"
    /\ IF loc[p].new_db_token \in DOMAIN ledger
       THEN /\ ledger' = [ledger EXCEPT ![loc[p].new_db_token] =
                            [@ EXCEPT !.parent_token_id = loc[p].db_token,
                                      !.is_revoked = FALSE,
                                      !.revoked_at = NONE,
                                      !.replaced_by_id = NONE]]
            /\ Goto(p, "revoke_old", loc[p])
       ELSE /\ UNCHANGED ledger
            /\ Finish(p, "storage_error", NONE, NONE)
    /\ UNCHANGED <<cache, is_active, now, nextId, returned, ops, side>>

\* A rotate that goes on to its revoke step without writing the back link.
rotate_link_parent_skipped(p) ==
    /\ pc[p] = "link_parent"
    /\ Goto(p, "revoke_old", loc[p])
    /\ UNCHANGED <<ledger, cache, is_active, now, nextId, returned, ops, side>>

\* Lines 180-182: BaseRepository.update sets parent_token_id on the new row
\* (an ORM flush of that one column; it raises when the row is gone).
rotate_link_parent(p) ==
    /\ pc[p] = "link_parent"
    /\ IF loc[p].new_db_token \in DOMAIN ledger
       THEN /\ ledger' = [ledger EXCEPT ![loc[p].new_db_token].parent_token_id =
                                            loc[p].db_token]
            /\ Goto(p, "revoke_old", loc[p])
       ELSE /\ UNCHANGED ledger
            /\ Finish(p, "storage_error", NONE, NONE)
    /\ UNCHANGED <<cache, is_active, now, nextId, returned, ops, side>>

\* A rotate that returns the new pair and leaves the presented row as it is.
rotate_revoke_old_skipped(p) ==
    /\ pc[p] = "revoke_old"
    /\ Goto(p, "rotate_invalidate", loc[p])
    /\ UNCHANGED <<ledger, cache, is_active, now, nextId, returned, ops, side>>

\* A rotate that, with the presented row, revokes the user's other sessions.
rotate_revoke_old_all_sessions(p) ==
    /\ pc[p] = "revoke_old"
    /\ ledger' = revoke_ids(
                    revoke_token(ledger, loc[p].db_token, loc[p].new_db_token, now),
                    {i \in DOMAIN ledger :
                        /\ ledger[i].user_id = loc[p].user
                        /\ ~ledger[i].is_revoked
                        /\ i \notin {loc[p].db_token, loc[p].new_db_token}},
                    now)
    /\ Goto(p, "rotate_invalidate", loc[p])
    /\ UNCHANGED <<cache, is_active, now, nextId, returned, ops, side>>

\* Lines 184-187: the presented row is revoked and linked forward.
rotate_revoke_old(p) ==
    /\ pc[p] = "revoke_old"
    /\ ledger' = revoke_token(ledger, loc[p].db_token, loc[p].new_db_token, now)
    /\ Goto(p, "rotate_invalidate", loc[p])
    /\ UNCHANGED <<cache, is_active, now, nextId, returned, ops, side>>

\* Lines 188-196: the old cache entry is dropped and the pair is returned.
rotate_invalidate(p) ==
    /\ pc[p] = "rotate_invalidate"
    /\ cache' = invalidate_token_cache(cache, hash_token(loc[p].secret))
    /\ returned' = returned \cup {<<loc[p].secret, loc[p].new_secret>>}
    /\ Finish(p, "tokens", loc[p].new_secret, NONE)
    /\ UNCHANGED <<ledger, is_active, now, nextId, ops, side>>


\* ------------------------------------------------------- logout_device
\* logout_device without the ownership check of lines 218-219.
logout_device_noowner(p, u, s) ==
    /\ Begin(p)
    /\ s \in 1..(nextId - 1)
    /\ LET i == get_by_token_hash(ledger, hash_token(s))
           l == [IdleLoc EXCEPT !.op = "logout", !.user = u, !.secret = s]
       IN IF i = NONE
          THEN /\ UNCHANGED <<pc, loc>>
               /\ result' = [NoResult EXCEPT !.op = "logout", !.outcome = "not_found"]
          ELSE Goto(p, "logout_revoke", [l EXCEPT !.db_token = i])
    /\ UNCHANGED <<ledger, cache, is_active, now, nextId, returned>>

\* Lines 212-219: the row is looked up and must belong to the caller.
logout_device(p, u, s) ==
    /\ Begin(p)
    /\ s \in 1..(nextId - 1)
    /\ LET i == get_by_token_hash(ledger, hash_token(s))
           l == [IdleLoc EXCEPT !.op = "logout", !.user = u, !.secret = s]
       IN IF i = NONE
          THEN /\ UNCHANGED <<pc, loc>>
               /\ result' = [NoResult EXCEPT !.op = "logout", !.outcome = "not_found"]
          ELSE IF ledger[i].user_id # u
          THEN /\ UNCHANGED <<pc, loc>>
               /\ result' = [NoResult EXCEPT !.op = "logout", !.outcome = "forbidden"]
          ELSE Goto(p, "logout_revoke", [l EXCEPT !.db_token = i])
    /\ UNCHANGED <<ledger, cache, is_active, now, nextId, returned>>

\* Lines 221-222: revoke_token(db_token.id), with no replaced_by_id.
logout_revoke(p) ==
    /\ pc[p] = "logout_revoke"
    /\ ledger' = revoke_token(ledger, loc[p].db_token, NONE, now)
    /\ Goto(p, "logout_invalidate", loc[p])
    /\ UNCHANGED <<cache, is_active, now, nextId, returned, ops, side>>

\* Lines 223-227.
logout_invalidate(p) ==
    /\ pc[p] = "logout_invalidate"
    /\ cache' = invalidate_token_cache(cache, hash_token(loc[p].secret))
    /\ Finish(p, "ok", NONE, NONE)
    /\ UNCHANGED <<ledger, is_active, now, nextId, returned, ops, side>>

\* -------------------------------------------------- logout_all_devices
\* logout_all_devices without the ownership test of line 243: any stored
\* record the except_token matches is spared.
logout_all_devices_anyowner(p, u, s) ==
    /\ Begin(p)
    /\ s \in {NONE} \cup 1..(nextId - 1)
    /\ LET i == IF s = NONE THEN NONE ELSE get_by_token_hash(ledger, hash_token(s))
       IN Goto(p, "revoke_all",
               [IdleLoc EXCEPT !.op = "logout_all", !.user = u, !.except_id = i,
                               !.secret = IF i # NONE THEN s ELSE NONE])
    /\ UNCHANGED <<ledger, cache, is_active, now, nextId, returned>>

\* Lines 239-244: the token to spare is resolved to a row id, when one is
\* given and the row belongs to the caller.  s = NONE is except_token=None.
logout_all_devices(p, u, s) ==
    /\ Begin(p)
    /\ s \in {NONE} \cup 1..(nextId - 1)
    /\ LET i == IF s = NONE THEN NONE ELSE get_by_token_hash(ledger, hash_token(s))
           e == IF i # NONE /\ ledger[i].user_id = u THEN i ELSE NONE
       IN Goto(p, "revoke_all",
               [IdleLoc EXCEPT !.op = "logout_all", !.user = u, !.except_id = e,
                               !.secret = IF e # NONE THEN s ELSE NONE])
    /\ UNCHANGED <<ledger, cache, is_active, now, nextId, returned>>

\* Lines 246-256: revoke_all_user_tokens; the cache is not touched.
logout_all_revoke(p) ==
    /\ pc[p] = "revoke_all"
    /\ LET targets == revoke_all_targets(ledger, loc[p].user, loc[p].except_id) IN
        /\ ledger' = revoke_ids(ledger, targets, now)
        /\ Finish(p, "ok", NONE, Cardinality(targets))
    /\ UNCHANGED <<cache, is_active, now, nextId, returned, ops, side>>

\* ------------------------------------------------- environment and jobs
\* cleanup_expired_refresh_tokens -> cleanup_expired_tokens: one DELETE.
cleanup_expired_tokens ==
    /\ expired_ids(ledger, now) # {}
    /\ ops < MaxOps
    /\ ops' = ops + 1
    /\ ledger' = [i \in DOMAIN ledger \ expired_ids(ledger, now) |-> ledger[i]]
    /\ UNCHANGED <<cache, is_active, now, nextId, pc, loc, result, returned, side>>

\* Time passes; Redis drops the keys whose TTL (set by cache_refresh_token to
\* end at expires_at) has run out.
Tick ==
    /\ now < MaxTicks * TickDays
    /\ now' = now + TickDays
    /\ cache' = [h \in {k \in DOMAIN cache : cache[k].expires_at > now'} |-> cache[h]]
    /\ UNCHANGED <<ledger, is_active, nextId, pc, loc, result, returned, ops, side>>

\* The cache is disposable: Redis is flushed or restarted.
CacheClear ==
    /\ DOMAIN cache # {}
    /\ ops < MaxOps
    /\ ops' = ops + 1
    /\ cache' = <<>>
    /\ UNCHANGED <<ledger, is_active, now, nextId, pc, loc, result, returned, side>>

\* UserService.delete_account deactivates the user.
delete_account(u) ==
    /\ is_active[u]
    /\ ops < MaxOps
    /\ ops' = ops + 1
    /\ is_active' = [is_active EXCEPT ![u] = FALSE]
    /\ UNCHANGED <<ledger, cache, now, nextId, pc, loc, result, returned, side>>

\* The awaits at which a handler is inside a call to the database (ledger
\* or user table); the other awaits are calls to Redis.
StorageCallLabels ==
    {"is_token_valid", "reuse_check", "chain_walk", "chain_update",
     "get_db_token", "get_user", "create_token", "get_new_token",
     "link_parent", "revoke_old", "logout_revoke", "revoke_all"}

\* A database call that fails and is swallowed: the caller goes on as if
\* the lookup had found nothing.
storage_unavailable_swallowed(p) ==
    /\ pc[p] \in StorageCallLabels
    /\ ops < MaxOps
    /\ ops' = ops + 1
    /\ Finish(p, "invalid", NONE, NONE)
    /\ UNCHANGED <<ledger, cache, is_active, now, nextId, returned, side>>

\* The database is unavailable for the call worker p is suspended in: the
\* driver raises, no handler on the path catches it (get_db rolls the open
\* transaction back and re-raises), and the request ends with that error.
\* What earlier calls of the handler committed stays committed.
storage_unavailable(p) ==
    /\ pc[p] \in StorageCallLabels
    /\ ops < MaxOps
    /\ ops' = ops + 1
    /\ Finish(p, "storage_error", NONE, NONE)
    /\ UNCHANGED <<ledger, cache, is_active, now, nextId, returned, side>>

\* ---------------------------------------------------------------- Next
Next ==
    \/ \E p \in Procs, u \in Users : authenticate(p, u)
    \/ \E p \in Procs : create_token(p)
    \/ \E p \in Procs : cache_refresh_token_step(p)
    \/ \E p \in Procs, s \in Secrets : refresh_access_token(p, s)
    \/ \E p \in Procs : rotate_is_token_valid(p)
    \/ \E p \in Procs : rotate_reuse_check(p)
    \/ \E p \in Procs : rotate_chain_walk(p)
    \/ \E p \in Procs : rotate_chain_update(p)
    \/ \E p \in Procs : rotate_reuse_invalidate(p)
    \/ \E p \in Procs : rotate_get_db_token(p)
    \/ \E p \in Procs : rotate_get_user(p)
    \/ \E p \in Procs : rotate_get_new_token(p)
    \/ \E p \in Procs : rotate_link_parent(p)
    \/ \E p \in Procs : rotate_revoke_old(p)
    \/ \E p \in Procs : rotate_invalidate(p)
    \/ \E p \in Procs, u \in Users, s \in Secrets : logout_device(p, u, s)
    \/ \E p \in Procs : logout_revoke(p)
    \/ \E p \in Procs : logout_invalidate(p)
    \/ \E p \in Procs, u \in Users, s \in Secrets \cup {NONE} : logout_all_devices(p, u, s)
    \/ \E p \in Procs : logout_all_revoke(p)
    \/ cleanup_expired_tokens
    \/ Tick
    \/ CacheClear
    \/ \E u \in Users : delete_account(u)
    \/ \E p \in Procs : storage_unavailable(p)

Spec == Init /\ [][Next]_vars


\* Executions in which no database call fails.
NextReliable ==
    /\ Next
    /\ ~(\E p \in Procs : storage_unavailable(p))

SpecReliable == Init /\ [][NextReliable]_vars


\* Requests served one at a time: a request is accepted only when no handler
\* is in flight, and nothing else (clock, sweep, cache flush) moves while a
\* handler runs.  Every behaviour of SpecSeq is a behaviour of Spec.
Quiet == \A p \in Procs : pc[p] = "idle"

NextSeq ==
    /\ Next
    /\ \/ Quiet
       \/ \E p \in Procs : pc[p] # "idle" /\ (pc'[p] # pc[p] \/ loc'[p] # loc[p])

SpecSeq == Init /\ [][NextSeq]_vars

\* ============================================== codes and access tokens
\* The account flows beside the ledger: verification codes in Redis, the
\* access tokens minted for a login and for a verified reset code, and the
\* dependency that authenticates a request by its access token.

ACCESS_TOKEN_EXPIRE_MINUTES == 60
RESET_TOKEN_EXPIRE_MINUTES == 10
CODE_EXPIRE_MINUTES == 15
CODE_RETRY_EXPIRE_MINUTES == 10
MAX_ATTEMPTS == 3

\* The minute clock advances in steps that divide both code lifetimes.
TickMinutes == 5

\* generate_verification_code draws from a set of strings; two are enough
\* for a right and a wrong entry.
Codes == {"c1", "c2"}

code_key(type_prefix, email) == <<type_prefix, email>>
attempt_key(type_prefix, email) == <<type_prefix \o "_attempts", email>>

\* A key exists while its TTL, if it has one, has not run out.
redis_exists(K, k, t) ==
    k \in DOMAIN K /\ (K[k].expire_at = NONE \/ K[k].expire_at > t)

\* Redis GET: the value of a key that exists, else nil.
redis_get(K, k, t) == IF redis_exists(K, k, t) THEN <<K[k].value>> ELSE <<>>

\* Redis SET key value EX expire.
redis_set(K, k, v, expire, t) ==
    [x \in DOMAIN K \cup {k} |->
        IF x = k THEN [value |-> v, expire_at |-> t + expire] ELSE K[x]]

\* Redis DEL.
redis_delete(K, ks) == [x \in DOMAIN K \ ks |-> K[x]]

\* Redis INCR: a key that exists keeps its TTL; a key that does not exist
\* is created at 1 with no TTL.
redis_increment(K, k, t) ==
    IF ~redis_exists(K, k, t)
    THEN [x \in DOMAIN K \cup {k} |->
            IF x = k THEN [value |-> 1, expire_at |-> NONE] ELSE K[x]]
    ELSE [K EXCEPT ![k].value = @ + 1]

\* Redis EXPIRE: a new TTL for a key that exists.
redis_expire(K, k, expire, t) ==
    IF ~redis_exists(K, k, t) THEN K
    ELSE [K EXCEPT ![k].expire_at = t + expire]

\* SecurityService.create_access_token: the signed payload.
create_access_token(subject, expires_delta, scope, t) ==
    [sub |-> subject, exp |-> t + expires_delta, scope |-> scope]

\* The access token of the pair a rotate returns: _create_token_pair signs
\* it for the user that refresh_access_token loaded.
rotate_access_token(p) ==
    create_access_token(loc[p].user, ACCESS_TOKEN_EXPIRE_MINUTES, NoScope, minute)

\* jwt.decode: the signature was made with SECRET_KEY and exp lies ahead.
jwt_decodes(token, t) == token \in jwts /\ token.exp > t

\* What the account flows leave alone.
ledger_vars == <<ledger, cache, now, nextId, pc, loc, result, returned,
                 beat_deleted, device_rows, rate_vars>>

\* _create_token_pair, its access token half: a login mints a general token.
login_access_token(u) ==
    /\ is_active[u]
    /\ Cardinality(jwts) < MaxJwts
    /\ ops < MaxOps
    /\ ops' = ops + 1
    /\ jwts' = jwts \cup {create_access_token(u, ACCESS_TOKEN_EXPIRE_MINUTES,
                                              NoScope, minute)}
    /\ UNCHANGED <<ledger_vars, is_active, kv, minute, auth, wrong>>

\* forgot_password -> _generate_and_save_code(email, "reset"); one code is
\* outstanding at a time.
forgot_password(u, c) ==
    /\ \A v \in Users : ~redis_exists(kv, code_key("reset", v), minute)
    /\ kv' = redis_set(redis_set(kv, code_key("reset", u), c,
                                 CODE_EXPIRE_MINUTES, minute),
                       attempt_key("reset", u), 0, CODE_EXPIRE_MINUTES, minute)
    /\ wrong' = [wrong EXCEPT ![u] = 0]
    /\ UNCHANGED <<ledger_vars, is_active, ops, minute, jwts, auth>>

\* _validate_code with an entry that differs from the stored code: the
\* state of Redis it leaves behind.
validate_code_mismatch(K, u, t) ==
    LET ck == code_key("reset", u)
        ak == attempt_key("reset", u)
        K1 == redis_increment(K, ak, t)
        attempts == K1[ak].value
        K2 == IF attempts = 1
              THEN redis_expire(K1, ck, CODE_RETRY_EXPIRE_MINUTES, t) ELSE K1
    IN  IF attempts >= MAX_ATTEMPTS THEN redis_delete(K2, {ck, ak}) ELSE K2

\* verify_reset_code: _validate_code, then the reset token.
verify_reset_code(u, c) ==
    LET stored_code == redis_get(kv, code_key("reset", u), minute) IN
    /\ stored_code # <<>>
    /\ wrong[u] < MaxWrong
    /\ IF stored_code # <<c>>
       THEN /\ kv' = validate_code_mismatch(kv, u, minute)
            /\ wrong' = [wrong EXCEPT ![u] = @ + 1]
            /\ UNCHANGED jwts
       ELSE /\ Cardinality(jwts) < MaxJwts
            /\ kv' = redis_delete(kv, {code_key("reset", u),
                                       attempt_key("reset", u)})
            /\ jwts' = jwts \cup {create_access_token(u, RESET_TOKEN_EXPIRE_MINUTES,
                                                      "password_reset", minute)}
            /\ UNCHANGED wrong
    /\ UNCHANGED <<ledger_vars, is_active, ops, minute, auth>>

\* get_current_user for a request bearing `token`.
get_current_user(token) ==
    /\ auth' = [token |-> token,
                outcome |-> IF ~jwt_decodes(token, minute) THEN "401"
                            ELSE IF ~is_active[token.sub] THEN "400"
                            ELSE "user"]
    /\ ops < MaxOps
    /\ ops' = ops + 1
    /\ UNCHANGED <<ledger_vars, is_active, kv, minute, jwts, wrong>>

\* Time passes; Redis drops the keys whose TTL has run out.
TickMinute ==
    /\ minute < MaxMinuteTicks * TickMinutes
    /\ minute' = minute + TickMinutes
    /\ kv' = [k \in {x \in DOMAIN kv : redis_exists(kv, x, minute')} |-> kv[k]]
    /\ UNCHANGED <<ledger_vars, is_active, ops, jwts, auth, wrong>>

NextAccount ==
    \/ \E u \in Users : login_access_token(u)
    \/ \E u \in Users, c \in Codes : forgot_password(u, c)
    \/ \E u \in Users, c \in Codes : verify_reset_code(u, c)
    \/ \E t \in jwts : get_current_user(t)
    \/ TickMinute
    \/ \E u \in Users : delete_account(u)

SpecAccount == Init /\ [][NextAccount]_vars


\* ============================================================ scheduled job
\* Celery beat fires the entry "cleanup-expired-tokens-daily", whose task
\* name is "tasks.cleanup_expired_tokens": the task registered under that
\* name sets deleted_count = 0 and returns it; it opens no session and
\* issues no DELETE.  (The task that calls the repository's
\* cleanup_expired_tokens is registered as
\* "auth.cleanup_expired_refresh_tokens", a name the schedule does not hold.)
beat_cleanup_expired_tokens ==
    /\ ops < MaxOps
    /\ ops' = ops + 1
    /\ beat_deleted' = 0
    /\ UNCHANGED <<ledger, cache, is_active, now, nextId, pc, loc, result,
                   returned, kv, minute, jwts, auth, wrong, device_rows,
                   rate_vars>>

NextBeat ==
    \/ Next
    \/ beat_cleanup_expired_tokens

SpecBeat == Init /\ [][NextBeat]_vars

\* ============================================================= device ids
\* The X-Device-ID header as get_client_info reads it: absent (None), empty,
\* or one of two identifiers.
NoDevice == "None"
DeviceIds == {NoDevice, "", "A", "B"}

\* Python's `a or b` on device ids: None and "" are falsy.
device_or(a, b) == IF a \in {NoDevice, ""} THEN b ELSE a

\* What the device flows leave alone.
nondevice_vars == <<ledger, cache, is_active, now, nextId, pc, loc, result,
                    returned, ops, kv, minute, jwts, auth, wrong, beat_deleted,
                    rate_vars>>

\* A login from a device: _create_token_pair stores the header's device_id.
login_from_device(d) ==
    /\ Len(device_rows) < MaxRecords
    /\ device_rows' = Append(device_rows,
                             [device_id |-> d, parent_token_id |-> NONE])
    /\ UNCHANGED nondevice_vars

\* refresh_access_token of row i with header d: the new row is created with
\* device_id = device_id or db_token.device_id and linked to its parent.
rotate_from_device(i, d) ==
    /\ Len(device_rows) < MaxRecords
    /\ device_rows' = Append(device_rows,
                             [device_id |-> device_or(d, device_rows[i].device_id),
                              parent_token_id |-> i])
    /\ UNCHANGED nondevice_vars

NextDevice ==
    \/ \E d \in DeviceIds : login_from_device(d)
    \/ \E i \in DOMAIN device_rows, d \in DeviceIds : rotate_from_device(i, d)

SpecDevice == Init /\ [][NextDevice]_vars

\* ========================================================== HTTP responses
\* What refresh_access_token raises for each way a request ends: every
\* rejection of the presented token is an AuthenticationError; a failing
\* database call surfaces as the driver's exception.
raised_by_refresh(outcome) ==
    CASE outcome \in {"invalid", "reuse", "inactive"} -> "AuthenticationError"
      [] outcome = "storage_error" -> "Exception"
      [] OTHER -> "none"

\* The classes of src.core.exception and their bases, nearest first.
exception_mro(exc) ==
    CASE exc = "AuthenticationError" ->
            <<"AuthenticationError", "BaseAppError", "Exception">>
      [] exc = "AppValueError" ->
            <<"AppValueError", "BaseAppError", "Exception">>
      [] exc = "BaseAppError" -> <<"BaseAppError", "Exception">>
      [] OTHER -> <<"Exception">>

\* The handlers init(app) registers for those classes, with the status
\* each one answers.
exception_handlers ==
    [AppValueError |-> 400, BaseAppError |-> 400, Exception |-> 500]

\* The handler chosen for an exception: the one registered for the nearest
\* class of its bases.
RECURSIVE lookup_handler(_)
lookup_handler(mro) ==
    IF Head(mro) \in DOMAIN exception_handlers
    THEN exception_handlers[Head(mro)]
    ELSE lookup_handler(Tail(mro))

\* The status POST /refresh answers with.
refresh_http_status(outcome) ==
    IF raised_by_refresh(outcome) = "none" THEN 200
    ELSE lookup_handler(exception_mro(raised_by_refresh(outcome)))

\* ============================================================ rate limiter
\* rate_limit_auth = RateLimiter(times=5, seconds=300): one client, one
\* path, so one counter key; the window is five minutes.
RATE_TIMES == 5
RATE_WINDOW_MINUTES == 5
rate_key == <<"rate_limit", "ip">>

\* What the rate limiter leaves alone.
nonrate_vars == <<ledger, cache, is_active, now, nextId, pc, loc, result,
                  returned, ops, jwts, auth, wrong, beat_deleted, device_rows>>

\* RateLimiter.__call__: the answer for a count.
rate_answer(current_count) ==
    IF current_count <= RATE_TIMES THEN "allowed" ELSE "429"

\* check_rate_limit, first await: INCR.  A count of 1 sends the call on to
\* its EXPIRE; any other count is answered at once.
rate_incr(p) ==
    /\ rl_pc[p] = "idle"
    /\ redis_exists(kv, rate_key, minute) => kv[rate_key].value < MaxHits
    /\ kv' = redis_increment(kv, rate_key, minute)
    /\ LET current_count == kv'[rate_key].value IN
        IF current_count = 1
        THEN /\ rl_pc' = [rl_pc EXCEPT ![p] = "expire"]
             /\ rl_first' = minute
             /\ UNCHANGED rl_answer
        ELSE /\ rl_answer' = rate_answer(current_count)
             /\ UNCHANGED <<rl_pc, rl_first>>
    /\ UNCHANGED <<nonrate_vars, minute>>

\* check_rate_limit, second await: EXPIRE key window, then the answer.
rate_expire(p) ==
    /\ rl_pc[p] = "expire"
    /\ kv' = redis_expire(kv, rate_key, RATE_WINDOW_MINUTES, minute)
    /\ rl_pc' = [rl_pc EXCEPT ![p] = "idle"]
    /\ rl_answer' = rate_answer(1)
    /\ UNCHANGED <<nonrate_vars, minute, rl_first>>

\* The call is cut off between its INCR and its EXPIRE (the client
\* disconnects and the request task is cancelled, or the EXPIRE command
\* fails on the connection): nothing more is written.
rate_interrupted(p) ==
    /\ rl_pc[p] = "expire"
    /\ rl_pc' = [rl_pc EXCEPT ![p] = "idle"]
    /\ rl_answer' = "interrupted"
    /\ UNCHANGED <<nonrate_vars, kv, minute, rl_first>>

NextRate ==
    \/ \E p \in Procs : rate_incr(p)
    \/ \E p \in Procs : rate_expire(p)
    \/ \E p \in Procs : rate_interrupted(p)
    \/ TickMinute

SpecRate == Init /\ [][NextRate]_vars

\* ================================================================ properties

\* The row stored for secret s, or NONE.
RecOf(s) == get_by_token_hash(ledger, hash_token(s))

\* is_valid as the design states it: the row exists, is not revoked and its
\* expires_at lies in the future.
IsValid(L, i, t) == i \in DOMAIN L /\ ~L[i].is_revoked /\ L[i].expires_at > t

\* The call worker p is suspended in at `label` returns in this step (it
\* does not fail: a failing database call is the one step of a busy worker
\* that is counted in ops).
Completes(p, label) == pc[p] = label /\ pc'[p] # label /\ ops' = ops

\* The pair <<A, B>> in `returned` says: a rotate presented A and returned B.
Revoked(s) == RecOf(s) # NONE => ledger[RecOf(s)].is_revoked

\* C1 -- reuse law: a rotate that presents a secret A which an earlier rotate
\* has already exchanged for B fails with the reuse error, and once it has
\* failed the record of B is revoked too.
C1_ReuseLaw ==
    (result.op = "rotate" /\ result.exchanged) =>
        /\ result.outcome = "reuse"
        /\ \A r \in returned : r[1] = result.secret => Revoked(r[2])

\* C2 -- of all the rotate calls that present the same secret, at most one
\* returns a new token pair.
C2_SingleWinner ==
    \A r1 \in returned : \A r2 \in returned : r1[1] = r2[1] => r1 = r2

\* C3 -- round trip: when a rotate returns its pair, the presented record is
\* revoked and points forward to the new record, the new record points back
\* to the presented one, and the new record is non-revoked and valid.
C3_RoundTrip ==
    [][\A p \in Procs :
        (pc[p] = "rotate_invalidate" /\ pc'[p] = "idle") =>
            LET old == loc[p].db_token
                new == get_by_token_hash(ledger', hash_token(result'.new_secret))
            IN /\ result'.outcome = "tokens"
               /\ old \in DOMAIN ledger'
               /\ new # NONE
               /\ ledger'[old].is_revoked
               /\ ledger'[old].replaced_by_id = new
               /\ ledger'[new].parent_token_id = old
               /\ IsValid(ledger', new, now')]_vars

C3_Witness ==
    /\ result.op = "rotate" /\ result.outcome = "tokens" /\ result.new_secret = 3
    /\ RecOf(3) # NONE
    /\ ledger[RecOf(3)].parent_token_id = RecOf(2)
    /\ ledger[RecOf(2)].replaced_by_id = RecOf(3)

\* The awaits of refresh_access_token that lie behind its validity check.
AfterCheck ==
    {"get_db_token", "get_user", "create_token", "cache_refresh_token",
     "get_new_token", "link_parent", "revoke_old", "rotate_invalidate"}

\* C4 -- a rotate gets past its validity check (and so creates a record or
\* returns a pair) only if the ledger, at that check, held a row for the
\* presented hash that was neither revoked nor past its expires_at; this is
\* so whether or not the cache answered for that hash.
C4_LedgerDecides ==
    /\ \A p \in Procs :
        (loc[p].op = "rotate" /\ pc[p] \in AfterCheck) => loc[p].seen = "live"
    /\ \A p \in Procs :
        (loc[p].op = "rotate" /\ loc[p].new_secret # NONE) => loc[p].seen = "live"

\* A rotate whose cache lookup hit, for a row the ledger holds as revoked, is
\* on its rejecting path.
C4_Witness ==
    \E p \in Procs :
        pc[p] = "reuse_invalidate" /\ loc[p].cached /\ loc[p].seen = "revoked"

\* C5 -- is_valid(token_hash) is true exactly when a row with that hash
\* exists, is not revoked and has expires_at strictly after now.
C5_IsValidStrict ==
    \A s \in Secrets :
        is_token_valid(ledger, hash_token(s), now) <=>
            \E i \in DOMAIN ledger :
                /\ ledger[i].token_hash = hash_token(s)
                /\ ~ledger[i].is_revoked
                /\ ledger[i].expires_at > now

\* What a validation step amounts to once the cache-only step that may
\* follow it (line 133) has run: that step raises the reuse error.
Settled(r) ==
    [pc |-> IF r.pc = "reuse_invalidate" THEN "idle" ELSE r.pc,
     outcome |-> IF r.pc = "reuse_invalidate" THEN "reuse" ELSE r.outcome,
     loc |-> r.loc, ledger |-> r.ledger]

\* C6 -- the cache never changes what rotate does: at every validation step
\* of every rotate in flight, the step taken after a cache hit and the step
\* taken after a cache miss lead to the same outcome, the same next ledger
\* read or write and the same ledger; the one step only the hit branch has
\* touches the cache alone.  (The cache is read once, at line 123, and only
\* into `cached`; so flushing it later changes nothing either.)
C6_CacheIrrelevant ==
    \A p \in Procs :
        pc[p] \in ValidationLabels =>
            LET hit == validation_step(pc[p], TRUE, loc[p], ledger, now)
                miss == validation_step(pc[p], FALSE, loc[p], ledger, now)
            IN /\ Settled(hit) = Settled(miss)
               /\ pc[p] = "reuse_invalidate" =>
                    /\ hit.ledger = ledger
                    /\ hit.outcome = "reuse"

\* A rotate that saw a cache hit is about to revoke a chain although the
\* cache entry has gone in the meantime (TTL run out, or Redis flushed).
C6_Witness ==
    \E p \in Procs :
        /\ pc[p] = "chain_update"
        /\ loc[p].cached
        /\ hash_token(loc[p].secret) \notin DOMAIN cache

\* C7 -- once the operations that revoke records have completed, the cache
\* holds no entry under the hash of a revoked record.
C7_RevokedNotCached ==
    Quiet => \A i \in DOMAIN ledger :
                ledger[i].is_revoked => ledger[i].token_hash \notin DOMAIN cache

\* The record a rotate in flight has created, or NONE.
Successor(p) ==
    IF loc[p].new_secret = NONE THEN NONE ELSE RecOf(loc[p].new_secret)

\* C8 -- create before revoke: the step of a rotate that revokes the
\* presented record runs only when the new record is already in the ledger;
\* and wherever a rotate that runs alone is suspended (and so may be
\* abandoned) after its validity check, the presented record or its
\* successor is valid, unless the presented record has reached its own
\* expiry instant.
C8_CreateBeforeRevoke ==
    /\ [](\A p \in Procs :
            (loc[p].op = "rotate" /\ pc[p] \in AfterCheck /\ loc[p].db_token # NONE) =>
                \/ IsValid(ledger, loc[p].db_token, now)
                \/ IsValid(ledger, Successor(p), now)
                \/ /\ loc[p].db_token \in DOMAIN ledger
                   /\ ~ledger[loc[p].db_token].is_revoked
                   /\ ledger[loc[p].db_token].expires_at <= now)
    /\ [][\A p \in Procs :
            Completes(p, "revoke_old") =>
                /\ loc[p].new_db_token \in DOMAIN ledger
                /\ ledger[loc[p].new_db_token].token_hash = hash_token(loc[p].new_secret)
                /\ ~ledger[loc[p].db_token].is_revoked
                /\ ledger'[loc[p].db_token].is_revoked]_vars

\* A rotate is suspended between its two writes: the new record is committed
\* and the presented one is not yet revoked.
C8_Witness ==
    \E p \in Procs :
        /\ pc[p] = "revoke_old"
        /\ IsValid(ledger, loc[p].db_token, now)
        /\ IsValid(ledger, Successor(p), now)

\* C9 -- a rotate whose presented record has been revoked by a logout or
\* logout_all between its validity check and its revoke step (the record is
\* revoked and carries no forward link) aborts at that step with the reuse
\* error instead of going on to return a pair.
C9_LogoutWins ==
    [][\A p \in Procs :
        ( /\ Completes(p, "revoke_old")
          /\ loc[p].db_token \in DOMAIN ledger
          /\ ledger[loc[p].db_token].is_revoked
          /\ ledger[loc[p].db_token].replaced_by_id = NONE ) =>
            (pc'[p] = "idle" /\ result'.outcome = "reuse")]_vars

\* C10 -- logout_all sparing a record T of the user: after the bulk revoke
\* every other record of the user is revoked, T is exactly as it was (so a
\* non-revoked, valid T stays non-revoked and valid), and the count returned
\* is the number of records the call turned from non-revoked to revoked.
C10_LogoutAllSpares ==
    [][\A p \in Procs :
        (Completes(p, "revoke_all") /\ loc[p].except_id # NONE) =>
            LET u == loc[p].user
                T == loc[p].except_id
            IN /\ DOMAIN ledger' = DOMAIN ledger
               /\ \A i \in DOMAIN ledger' :
                    (ledger'[i].user_id = u /\ i # T) => ledger'[i].is_revoked
               /\ T \in DOMAIN ledger => ledger'[T] = ledger[T]
               /\ result'.count =
                    Cardinality({i \in DOMAIN ledger :
                                    ~ledger[i].is_revoked /\ ledger'[i].is_revoked})]_vars

\* A logout_all that spared the record of secret 2 has just revoked another
\* session of the same user, and the spared record is still valid.
C10_Witness ==
    /\ result.op = "logout_all" /\ result.secret = 2 /\ result.count = 1
    /\ IsValid(ledger, RecOf(2), now)
    /\ \E i \in DOMAIN ledger :
        i # RecOf(2) /\ ledger[i].user_id = "u1" /\ ledger[i].revoked_at = now
           /\ ledger[i].replaced_by_id = NONE

\* C11 -- logout(user, secret) changes the one record matching the secret
\* and no other, and only when that record belongs to the caller; a logout
\* that fails with not-found or forbidden leaves ledger and cache as they
\* were.
C11_LogoutExact ==
    [][/\ \A p \in Procs :
            Completes(p, "logout_revoke") =>
                LET T == loc[p].db_token IN
                /\ DOMAIN ledger' = DOMAIN ledger
                /\ \A i \in DOMAIN ledger : i # T => ledger'[i] = ledger[i]
                /\ T \in DOMAIN ledger =>
                     /\ ledger[T].token_hash = hash_token(loc[p].secret)
                     /\ ledger[T].user_id = loc[p].user
                     /\ ledger'[T].is_revoked
       /\ ( /\ result' # result
            /\ result'.op = "logout"
            /\ result'.outcome \in {"not_found", "forbidden"} ) =>
                (ledger' = ledger /\ cache' = cache)]_vars

\* A logout of secret 2 by its owner has returned: record 2 is revoked and
\* another session of the same user is still valid.
C11_Witness ==
    /\ result.op = "logout" /\ result.outcome = "ok" /\ result.secret = 2
    /\ RecOf(2) # NONE /\ ledger[RecOf(2)].is_revoked
    /\ \E i \in DOMAIN ledger :
        i # RecOf(2) /\ ledger[i].user_id = "u1" /\ IsValid(ledger, i, now)

\* The awaits at which a handler calls revoke_token on loc.db_token.
RevokeLabels == {"revoke_old", "logout_revoke"}

\* C12 -- revoke is idempotent: a revoke_token applied to a record that is
\* already revoked leaves that record exactly as it was.
C12_RevokeIdempotent ==
    [][\A p \in Procs :
        ( /\ pc[p] \in RevokeLabels /\ Completes(p, pc[p])
          /\ loc[p].db_token \in DOMAIN ledger
          /\ ledger[loc[p].db_token].is_revoked ) =>
            ledger'[loc[p].db_token] = ledger[loc[p].db_token]]_vars

\* C13 -- revocation is permanent: no step turns is_revoked of a record
\* that stays in the ledger from true back to false.
C13_RevokedPermanent ==
    [][\A i \in DOMAIN ledger \cap DOMAIN ledger' :
        ledger[i].is_revoked => ledger'[i].is_revoked]_vars

\* A record that was already revoked has been written again (a logout of the
\* rotated secret 1 has rewritten its forward link) and is still revoked.
C13_Witness ==
    /\ result.op = "logout" /\ result.outcome = "ok" /\ result.secret = 1
    /\ RecOf(1) # NONE
    /\ ledger[RecOf(1)].is_revoked
    /\ ledger[RecOf(1)].replaced_by_id = NONE

\* C14 -- rotated is terminal: a record that is revoked with replaced_by_id
\* pointing at its successor keeps that replaced_by_id through every later
\* step for as long as it is in the ledger.
C14_RotatedTerminal ==
    [][\A i \in DOMAIN ledger \cap DOMAIN ledger' :
        (ledger[i].is_revoked /\ ledger[i].replaced_by_id # NONE) =>
            ledger'[i].replaced_by_id = ledger[i].replaced_by_id]_vars

\* C15 -- the chain links form a forest of singly-linked chains: no two
\* records of the ledger carry the same parent_token_id (each record has at
\* most one child; a record has one parent column, so at most one parent).
C15_Forest ==
    \A i \in DOMAIN ledger : \A j \in DOMAIN ledger :
        (i # j /\ ledger[i].parent_token_id # NONE) =>
            ledger[i].parent_token_id # ledger[j].parent_token_id

\* C16 -- the record a rotate has created carries parent_token_id from the
\* write that created it: wherever a rotate is suspended (or was abandoned)
\* with its new record in the ledger, that record's parent_token_id is set.
C16_ParentAtCreate ==
    \A p \in Procs :
        (loc[p].op = "rotate" /\ Successor(p) # NONE) =>
            ledger[Successor(p)].parent_token_id # NONE

\* The ancestors of record i: the records reached by following
\* parent_token_id backward for as long as the lookup finds a record.
RECURSIVE Ancestors(_, _)
Ancestors(L, i) ==
    IF i \notin DOMAIN L THEN {}
    ELSE IF L[i].parent_token_id = NONE THEN {}
    ELSE IF L[i].parent_token_id \notin DOMAIN L THEN {}
    ELSE {L[i].parent_token_id} \cup Ancestors(L, L[i].parent_token_id)

ReusePath == {"chain_walk", "chain_update", "reuse_invalidate"}

UpToUserCheck == {"is_token_valid", "get_db_token", "get_user"}

\* C19 -- rotate fails closed on an inactive principal: the user check of a
\* rotate whose owning user is inactive ends the request with the inactive
\* error and no pair; and no step of a rotate up to and including that
\* check (accepting the request, the validity check, the fetch, the user
\* check) writes to the ledger or the cache or creates a record.
C19_InactiveFailsClosed ==
    [][\A p \in Procs :
        /\ (Completes(p, "get_user") /\ ~is_active[loc[p].user]) =>
              /\ pc'[p] = "idle"
              /\ result'.outcome = "inactive"
              /\ result'.new_secret = NONE
              /\ returned' = returned
        /\ ( \/ pc[p] = "idle" /\ pc'[p] = "is_token_valid"
             \/ /\ pc[p] \in UpToUserCheck /\ pc'[p] # pc[p]
                /\ pc'[p] \in UpToUserCheck \cup {"create_token"}
             \/ pc[p] = "get_user" /\ pc'[p] = "idle" ) =>
              /\ ledger' = ledger
              /\ cache' = cache
              /\ nextId' = nextId]_vars

\* A rotate presenting the valid, cached secret 2 of a deactivated user has
\* been refused; the record is still valid and still cached.
C19_Witness ==
    /\ result.op = "rotate" /\ result.outcome = "inactive" /\ result.secret = 2
    /\ ~is_active["u1"]
    /\ IsValid(ledger, RecOf(2), now)
    /\ hash_token(2) \in DOMAIN cache

\* C20 -- a storage failure during rotate is a hard failure: the step at
\* which a database call of a rotate fails ends the request with the storage
\* error (not with the invalid/expired error, not with the reuse error),
\* returns no pair and writes nothing.
C20_StorageHardFailure ==
    [][\A p \in Procs :
        ( /\ loc[p].op = "rotate" /\ pc[p] \in StorageCallLabels
          /\ pc'[p] # pc[p] /\ ops' = ops + 1 ) =>
            /\ pc'[p] = "idle"
            /\ result'.op = "rotate"
            /\ result'.outcome = "storage_error"
            /\ result'.new_secret = NONE
            /\ returned' = returned
            /\ ledger' = ledger]_vars

\* A rotate of secret 2 has ended with the storage error after it had
\* created its new record: the old record is still valid and the new secret
\* was never returned.
C20_Witness ==
    /\ result.op = "rotate" /\ result.outcome = "storage_error" /\ result.secret = 2
    /\ IsValid(ledger, RecOf(2), now)
    /\ RecOf(3) # NONE
    /\ \A r \in returned : r[2] # 3

\* C21 -- token_hash is globally unique: no two records of the ledger have
\* the same token_hash; a create either fails, leaving the ledger as it was,
\* or adds one record whose hash no existing record has, changing no other.
C21_HashUnique ==
    /\ [](\A i \in DOMAIN ledger : \A j \in DOMAIN ledger :
            i # j => ledger[i].token_hash # ledger[j].token_hash)
    /\ [][\A p \in Procs :
            Completes(p, "create_token") =>
                \/ /\ ledger' = ledger
                   /\ pc'[p] = "idle"
                   /\ result'.outcome = "storage_error"
                   /\ result'.new_secret = NONE
                \/ \E n \in DOMAIN ledger' \ DOMAIN ledger :
                   /\ DOMAIN ledger' = DOMAIN ledger \cup {n}
                   /\ \A i \in DOMAIN ledger :
                        /\ ledger'[i] = ledger[i]
                        /\ ledger[i].token_hash # ledger'[n].token_hash]_vars

\* A login whose generated secret collided with a stored hash has failed at
\* its insert: no record was added.
C21_Witness ==
    /\ result.op = "login" /\ result.outcome = "storage_error"
    /\ ops = 1
    /\ nextId = 3
    /\ DOMAIN ledger = {1, 2}

\* C22: get_current_user never authenticates a request bearing a token whose
\* scope is "password_reset" (as minted by verify_reset_code).
C22_ScopedTokenRejected ==
    auth.outcome = "user" => auth.token.scope # "password_reset"

\* C30: a stored code tolerates at most three incorrect entries: once three
\* incorrect entries have been made against it, the code is gone.
C30_ThreeStrikes ==
    \A u \in Users :
        wrong[u] >= MAX_ATTEMPTS =>
            redis_get(kv, code_key("reset", u), minute) = <<>>

\* C23: a sweep deletes exactly the rows whose expires_at has passed, revoked
\* or not, returns their number, deletes no row that is valid at that
\* instant, and leaves every other row as it was.
C23_SweepExact ==
    [][ (DOMAIN ledger' # DOMAIN ledger /\ nextId' = nextId) =>
          LET gone == DOMAIN ledger \ DOMAIN ledger' IN
          /\ DOMAIN ledger' \subseteq DOMAIN ledger
          /\ gone = {i \in DOMAIN ledger : ledger[i].expires_at < now}
          /\ cleanup_rowcount(ledger, now) = Cardinality(gone)
          /\ \A i \in gone : /\ ~IsValid(ledger, i, now)
                             /\ ~is_token_valid(ledger, ledger[i].token_hash, now)
          /\ \A i \in DOMAIN ledger' : ledger'[i] = ledger[i] ]_vars

\* C23 witness: a sweep has removed the expired rows (revoked row 1 among
\* them) while a row that has not expired is still stored.
C23_Witness ==
    /\ 1 \notin DOMAIN ledger
    /\ \E i \in DOMAIN ledger : ledger[i].expires_at >= now

\* C24: each time the scheduled cleanup job fires, every row whose
\* expires_at has passed is deleted.
C24_ScheduledSweep ==
    [][ beat_cleanup_expired_tokens => expired_ids(ledger', now') = {} ]_vars

\* C25: a chain stays on one device: every row created by a rotate has the
\* device_id of the row it was rotated from, whatever the caller supplied.
C25_ChainOneDevice ==
    \A i \in DOMAIN device_rows :
        device_rows[i].parent_token_id # NONE =>
            device_rows[i].device_id =
                device_rows[device_rows[i].parent_token_id].device_id

\* C26 -- once a record is revoked, later writes may only adjust its
\* replaced_by_id: revoked_at and every other column stay as they were for
\* as long as the record is in the ledger.
C26_RevokedFrame ==
    [][\A i \in DOMAIN ledger \cap DOMAIN ledger' :
        ledger[i].is_revoked =>
            [ledger'[i] EXCEPT !.replaced_by_id = ledger[i].replaced_by_id]
                = ledger[i]]_vars

\* C27 -- authentication creates exactly one new record, not revoked, with
\* null parent_token_id and null replaced_by_id, and changes no existing
\* record: the insert of a login adds that one row and leaves the others as
\* they were, and the other steps of a login do not write the ledger.
C27_LoginFrame ==
    [][\A p \in Procs :
        /\ ( /\ loc[p].op = "login" /\ Completes(p, "create_token")
             /\ pc'[p] = "cache_refresh_token" ) =>
              \E n \in DOMAIN ledger' \ DOMAIN ledger :
                /\ DOMAIN ledger' = DOMAIN ledger \cup {n}
                /\ ledger'[n].user_id = loc[p].user
                /\ ~ledger'[n].is_revoked
                /\ ledger'[n].parent_token_id = NONE
                /\ ledger'[n].replaced_by_id = NONE
                /\ \A i \in DOMAIN ledger : ledger'[i] = ledger[i]
        /\ ( \/ pc[p] = "idle" /\ pc'[p] # "idle" /\ loc'[p].op = "login"
             \/ loc[p].op = "login" /\ Completes(p, "cache_refresh_token") ) =>
              ledger' = ledger ]_vars

\* C27 witness: a login of u1 has returned its pair, its record is stored
\* and valid, and the session u1 already had (record 2) is still valid.
C27_Witness ==
    /\ result.op = "login" /\ result.outcome = "tokens"
    /\ RecOf(result.new_secret) # NONE
    /\ ledger[RecOf(result.new_secret)].user_id = "u1"
    /\ IsValid(ledger, RecOf(result.new_secret), now)
    /\ RecOf(result.new_secret) # 2
    /\ IsValid(ledger, 2, now)

\* C28 -- expires_at is fixed at creation: no step changes the expires_at of
\* a record that stays in the ledger.
C28_ExpiryFixed ==
    [][\A i \in DOMAIN ledger \cap DOMAIN ledger' :
        ledger'[i].expires_at = ledger[i].expires_at]_vars

\* C28 witness: a record created at instant 0 was revoked at a later instant
\* (by a logout, a logout of all devices or a chain revocation) and still
\* expires 30 days after its creation.
C28_Witness ==
    \E i \in DOMAIN ledger :
        /\ ledger[i].is_revoked
        /\ ledger[i].revoked_at > 0
        /\ ledger[i].expires_at = REFRESH_TOKEN_EXPIRE_DAYS

\* C29 -- when refresh rejects the presented token (AuthenticationError),
\* POST /refresh answers with status 401.
C29_RefreshRejects401 ==
    ( /\ result.op = "rotate"
      /\ raised_by_refresh(result.outcome) = "AuthenticationError" ) =>
        refresh_http_status(result.outcome) = 401

\* C31 -- every counter key that check_rate_limit has incremented carries an
\* expiry of at most the window from its first increment: once no call is
\* between its increment and its expire step, the key, if it exists, expires
\* no later than first increment + window.
C31_CounterExpires ==
    ( /\ \A p \in Procs : rl_pc[p] = "idle"
      /\ redis_exists(kv, rate_key, minute) ) =>
        /\ kv[rate_key].expire_at # NONE
        /\ kv[rate_key].expire_at <= rl_first + RATE_WINDOW_MINUTES

\* A refresh_access_token is in flight.
RotateInProgress == \E p \in Procs : pc[p] # "idle" /\ loc[p].op = "rotate"

C33_RotateFrame ==
    [][\A p \in Procs :
        ( /\ loc[p].op = "rotate" /\ pc[p] \in AfterCheck
          /\ Completes(p, pc[p]) ) =>
            LET old == loc[p].db_token
                new == loc[p].new_db_token
            IN CASE pc[p] = "create_token" ->
                      \/ ledger' = ledger
                      \/ \E n \in DOMAIN ledger' \ DOMAIN ledger :
                            /\ DOMAIN ledger' = DOMAIN ledger \cup {n}
                            /\ \A i \in DOMAIN ledger : ledger'[i] = ledger[i]
                 [] pc[p] = "link_parent" ->
                      /\ DOMAIN ledger' = DOMAIN ledger
                      /\ \A i \in DOMAIN ledger \ {new} : ledger'[i] = ledger[i]
                      /\ new \in DOMAIN ledger =>
                            ledger'[new] =
                                [ledger[new] EXCEPT !.parent_token_id = old]
                 [] pc[p] = "revoke_old" ->
                      /\ old \in DOMAIN ledger
                      /\ new \in DOMAIN ledger /\ new # old
                      /\ ledger' = [ledger EXCEPT ![old] =
                                       [@ EXCEPT !.is_revoked = TRUE,
                                                 !.revoked_at = now,
                                                 !.replaced_by_id = new]]
                 [] OTHER -> ledger' = ledger ]_vars

\* C33 witness: a rotate has returned a new pair while a session of another
\* user, created before the rotate, is stored and still valid.
C33_Witness ==
    /\ result.op = "rotate" /\ result.outcome = "tokens" /\ result.new_secret > 2
    /\ \E i \in DOMAIN ledger :
        /\ ledger[i].user_id = "u2"
        /\ IsValid(ledger, i, now)
        /\ i < RecOf(result.new_secret)

\* C34 -- logout_all(user, except_secret) never changes a record of another
\* user; the record it spares is one of the caller's own records, matching
\* except_secret, or none (an except_secret that matches no record or a
\* record of another user is ignored); and when none is spared every record
\* of the user is revoked after the bulk revoke.
C34_LogoutAllOwnOnly ==
    [][\A p \in Procs :
        /\ ( pc[p] = "idle" /\ pc'[p] = "revoke_all" ) =>
              /\ ledger' = ledger
              /\ loc'[p].except_id # NONE =>
                    /\ loc'[p].except_id \in DOMAIN ledger
                    /\ ledger[loc'[p].except_id].user_id = loc'[p].user
                    /\ ledger[loc'[p].except_id].token_hash =
                            hash_token(loc'[p].secret)
        /\ Completes(p, "revoke_all") =>
              /\ DOMAIN ledger' = DOMAIN ledger
              /\ \A i \in DOMAIN ledger :
                    ledger[i].user_id # loc[p].user => ledger'[i] = ledger[i]
              /\ loc[p].except_id = NONE =>
                    \A i \in DOMAIN ledger :
                        ledger[i].user_id = loc[p].user => ledger'[i].is_revoked ]_vars

\* C34 witness: a logout_all of u2 that spared nothing has revoked u2's
\* session, and the session of u1 (record 2) is still valid.
C34_Witness ==
    /\ result.op = "logout_all" /\ result.secret = NONE /\ result.count >= 1
    /\ \E i \in DOMAIN ledger :
        ledger[i].user_id = "u2" /\ ledger[i].is_revoked
    /\ \A i \in DOMAIN ledger : ledger[i].user_id = "u2" => ledger[i].is_revoked
    /\ IsValid(ledger, 2, now)

\* C35 -- forward links never dangle and agree with the back link: whenever
\* a record X has replaced_by_id = y, a record y is stored and its
\* parent_token_id is X.
C35_ForwardLinkSound ==
    \A x \in DOMAIN ledger :
        ledger[x].replaced_by_id # NONE =>
            /\ ledger[x].replaced_by_id \in DOMAIN ledger
            /\ ledger[ledger[x].replaced_by_id].parent_token_id = x

\* C35 witness: two rotations of secret 2 have both created a record naming
\* record 2 as parent, and record 2 points forward to one of them.
C35_Witness ==
    /\ 2 \in DOMAIN ledger
    /\ ledger[2].replaced_by_id # NONE
    /\ \E i \in DOMAIN ledger : \E j \in DOMAIN ledger :
        i # j /\ ledger[i].parent_token_id = 2 /\ ledger[j].parent_token_id = 2

\* C36 -- rotation never moves a session to another principal: every record
\* that has a stored parent has the user_id of that parent, and the access
\* token of the pair a rotate returns has as subject the user_id of the
\* presented record and of the new record.
C36_SamePrincipal ==
    /\ [](\A j \in DOMAIN ledger :
            ledger[j].parent_token_id \in DOMAIN ledger =>
                ledger[j].user_id = ledger[ledger[j].parent_token_id].user_id)
    /\ [][\A p \in Procs :
            Completes(p, "rotate_invalidate") =>
                /\ result'.outcome = "tokens"
                /\ loc[p].db_token \in DOMAIN ledger =>
                     rotate_access_token(p).sub = ledger[loc[p].db_token].user_id
                /\ Successor(p) # NONE =>
                     rotate_access_token(p).sub = ledger[Successor(p)].user_id]_vars

\* C36 witness: u2 has logged in and rotated; the rotate has returned its
\* pair, and the new record, like its parent, belongs to u2.
C36_Witness ==
    /\ result.op = "rotate" /\ result.outcome = "tokens"
    /\ RecOf(result.new_secret) # NONE
    /\ ledger[RecOf(result.new_secret)].user_id = "u2"
    /\ ledger[RecOf(result.new_secret)].parent_token_id \in DOMAIN ledger
    /\ \E i \in DOMAIN ledger : ledger[i].user_id = "u1"

\* C37 -- the sweep removes chains from the root upward: a record never
\* expires before its stored parent, and every step that deletes a record
\* deletes with it all the ancestors of that record that were still stored;
\* so (deleted records never return) above a deleted parent no ancestor is
\* left for revoke_token_chain to miss.
C37_SweepRootUpward ==
    /\ [](\A j \in DOMAIN ledger :
            ledger[j].parent_token_id \in DOMAIN ledger =>
                ledger[ledger[j].parent_token_id].expires_at <= ledger[j].expires_at)
    /\ [][\A i \in DOMAIN ledger \ DOMAIN ledger' :
            Ancestors(ledger, i) \cap DOMAIN ledger' = {}]_vars
    /\ [][DOMAIN ledger' \cap 1..(nextId - 1) \subseteq DOMAIN ledger]_vars

\* C37 witness: a sweep has deleted the parent of a record that is still
\* stored, and with it the parent's own parent (record 1).
C37_Witness ==
    /\ 1 \notin DOMAIN ledger
    /\ \E j \in DOMAIN ledger :
        /\ ledger[j].parent_token_id = 2
        /\ 2 \notin DOMAIN ledger
====
